---- MODULE Spec2Model ----
(***************************************************************************)
(* Model of lab_6_pipeline/pipeline.py: the Mystem tag converter, the      *)
(* CONLL-U token and sentence model, the sentence/analyzer alignment of    *)
(* MorphologicalAnalysisPipeline._process and the orchestrator run().      *)
(*                                                                         *)
(* Text is a sequence of one-character strings.  The module's character    *)
(* set is ASCII, so the lowercase Cyrillic letters that the pattern        *)
(* [а-я]+ matches are written with the stand-ins "x" and "y"; "a", "b"     *)
(* and "A" are letters of surface text, "1" is a digit, "S", "V", "Q" are  *)
(* the uppercase Latin letters of Mystem's part-of-speech codes.           *)
(***************************************************************************)
EXTENDS Integers, Sequences, FiniteSets, TLC

VARIABLES
    tag_mapping,        \* MystemTagConverter._tag_mapping: category -> (code -> value)
    tags,               \* the argument of a direct call of the tag converter
    feats,              \* what convert_morphological_tags returned for it
    conv_pos,           \* what convert_pos returned (or raised) for it
    articles,           \* CorpusManager._storage, in iteration order
    art,                \* run(): index of the article of the current iteration
    pc,                 \* position of control
    result,             \* _process: number of records taken from the generator
    idx_sent,           \* _process: index of the current sentence (0-based)
    tokens,             \* _process: the current sentence's records (stream indexes)
    idx_token,          \* _process: position of the token being built
    conllu_sentences,   \* _process: the sentences built so far
    groups,             \* _process: the finalized token group of every sentence
    pulled,             \* _process: every record taken so far, with its sentence
    attached,           \* article index -> sentences set by set_conllu_sentences
    files,              \* article index -> the renderings handed to persistence
    err                 \* the exception that left run(), or "none"

vars == <<tag_mapping, tags, feats, conv_pos, articles, art, pc, result, idx_sent,
          tokens, idx_token, conllu_sentences, groups, pulled, attached, files, err>>

(***************************************************************************)
(* Bounds of the model.                                                    *)
(***************************************************************************)
MaxTags == 3        \* codes in a native tag string given to the converter
MaxStream == 3      \* records in one document's analyzer stream
MaxSents == 2       \* sentences of one document
MaxDocs == 3        \* articles of a multi-article corpus

(***************************************************************************)
(* Characters.                                                             *)
(***************************************************************************)
CyrLower == {"x", "y"}
LatUpper == {"S", "V", "Q", "A"}
LatLower == {"a", "b"}
Digits == {"1"}
Whitespace == {" "}

isalnum(c) == c \in CyrLower \cup LatUpper \cup LatLower \cup Digits

HasAlnum(text) == \E i \in 1..Len(text) : isalnum(text[i])

(***************************************************************************)
(* re.findall / re.search over a character class: the maximal runs of      *)
(* characters of the class, left to right.                                 *)
(***************************************************************************)
RECURSIVE RunsFrom(_, _, _, _)
RunsFrom(s, class, cur, acc) ==
    IF s = <<>>
    THEN IF cur = <<>> THEN acc ELSE Append(acc, cur)
    ELSE IF Head(s) \in class
         THEN RunsFrom(Tail(s), class, Append(cur, Head(s)), acc)
         ELSE RunsFrom(Tail(s), class, <<>>,
                       IF cur = <<>> THEN acc ELSE Append(acc, cur))

re_findall(class, s) == RunsFrom(s, class, <<>>, <<>>)

(***************************************************************************)
(* The tag categories of the TagConverter base class, and the order of     *)
(* their names as Python compares strings.                                 *)
(***************************************************************************)
pos == "POS"
case == "Case"
number == "Number"
gender == "Gender"
animacy == "Animacy"
tense == "Tense"

FeatureCategories == {case, number, gender, animacy, tense}

NameOrder == <<animacy, case, gender, number, pos, tense>>

NameRank(name) == CHOOSE i \in 1..Len(NameOrder) : NameOrder[i] = name

(***************************************************************************)
(* MystemTagConverter.convert_morphological_tags                           *)
(***************************************************************************)
\* the tuple the inner loop iterates over, with gender tried before case
PrecedenceGenderFirst == <<gender, number, case, animacy, tense>>

\* the tuple the inner loop iterates over (line 219)
Precedence == <<case, number, gender, animacy, tense>>

\* the test of line 220 without its second conjunct
CanAssignAlways(mapping, format_tags, tag, category) ==
    tag \in DOMAIN mapping[category]

\* the test of line 220
CanAssign(mapping, format_tags, tag, category) ==
    /\ tag \in DOMAIN mapping[category]
    /\ category \notin DOMAIN format_tags

\* one iteration of the outer loop: the first category of Precedence that
\* passes the test takes the tag's value, and the inner loop breaks
AssignTag(mapping, format_tags, tag) ==
    LET hits == {i \in 1..Len(Precedence) :
                    CanAssign(mapping, format_tags, tag, Precedence[i])}
    IN  IF hits = {}
        THEN format_tags
        ELSE LET first == CHOOSE i \in hits : \A j \in hits : i <= j
                 category == Precedence[first]
             IN  [c \in DOMAIN format_tags \cup {category} |->
                     IF c = category THEN mapping[category][tag]
                     ELSE format_tags[c]]

RECURSIVE FormatTags(_, _, _)
FormatTags(mapping, tag_list, format_tags) ==
    IF tag_list = <<>>
    THEN format_tags
    ELSE FormatTags(mapping, Tail(tag_list),
                    AssignTag(mapping, format_tags, Head(tag_list)))

\* sorted(format_tags.items()): the keys are distinct, so the items are
\* ordered by category name
RECURSIVE SortedKeysOf(_)
SortedKeysOf(keys) ==
    IF keys = {}
    THEN <<>>
    ELSE LET least == CHOOSE c \in keys :
                         \A d \in keys : NameRank(c) <= NameRank(d)
         IN  <<least>> \o SortedKeysOf(keys \ {least})

ItemOrder(format_tags) == SortedKeysOf(DOMAIN format_tags)

\* '|'.join(f'{cat}={val}' ...): the text as its pieces
RECURSIVE JoinFeats(_, _)
JoinFeats(keys, format_tags) ==
    IF keys = <<>>
    THEN <<>>
    ELSE <<Head(keys), "=", format_tags[Head(keys)]>>
         \o (IF Len(keys) = 1 THEN <<>> ELSE <<"|">>)
         \o JoinFeats(Tail(keys), format_tags)

convert_morphological_tags(mapping, gr) ==
    LET tag_list == re_findall(CyrLower, gr)
        format_tags == FormatTags(mapping, tag_list, [c \in {} |-> ""])
    IN  JoinFeats(ItemOrder(format_tags), format_tags)

(***************************************************************************)
(* MystemTagConverter.convert_pos: the value, or the exception raised.     *)
(***************************************************************************)
\* what a call gives back: a value, or the exception it raised
Returned(value) == [raised |-> "none", value |-> value]

Raised(name) == [raised |-> name, value |-> ""]

\* the lookup of line 232 done with dict.get and a default
LookupPosDefault(mapping, code) ==
    IF code \in DOMAIN mapping[pos]
    THEN Returned(mapping[pos][code])
    ELSE Returned("X")

\* the subscription of line 232: a missing key raises KeyError
LookupPos(mapping, code) ==
    IF code \in DOMAIN mapping[pos]
    THEN Returned(mapping[pos][code])
    ELSE Raised("KeyError")

convert_pos(mapping, gr) ==
    LET found == re_findall(LatUpper, gr)
    IN  IF found = <<>>
        THEN Raised("TypeError")      \* re.search returned None; None[0]
        ELSE LookupPos(mapping, found[1])

(***************************************************************************)
(* Text helpers: the substring test, re.sub(..., count=1), str.strip,      *)
(* str.lower, str.isdigit and str() of a small natural number.             *)
(***************************************************************************)
Contains(text, part) ==
    \E i \in 0..(Len(text) - Len(part)) : SubSeq(text, i + 1, i + Len(part)) = part

\* re.sub(re.escape(part), '', text, 1): the first occurrence is removed
RemoveFirst(text, part) ==
    IF part = <<>> \/ ~Contains(text, part)
    THEN text
    ELSE LET i == CHOOSE k \in 0..(Len(text) - Len(part)) :
                     /\ SubSeq(text, k + 1, k + Len(part)) = part
                     /\ \A j \in 0..(Len(text) - Len(part)) :
                            SubSeq(text, j + 1, j + Len(part)) = part => k <= j
         IN  SubSeq(text, 1, i) \o SubSeq(text, i + Len(part) + 1, Len(text))

RECURSIVE lstrip(_)
lstrip(text) ==
    IF text # <<>> /\ Head(text) \in Whitespace THEN lstrip(Tail(text)) ELSE text

RECURSIVE rstrip(_)
rstrip(text) ==
    IF text # <<>> /\ text[Len(text)] \in Whitespace
    THEN rstrip(SubSeq(text, 1, Len(text) - 1))
    ELSE text

strip(text) == rstrip(lstrip(text))

isdigit(text) == text # <<>> /\ \A i \in 1..Len(text) : text[i] \in Digits

lower_char(c) ==
    CASE c = "A" -> "a"
      [] c = "S" -> "s"
      [] c = "V" -> "v"
      [] c = "Q" -> "q"
      [] OTHER -> c

lower(text) == [i \in 1..Len(text) |-> lower_char(text[i])]

DigitChars == <<"0", "1", "2", "3", "4", "5", "6", "7", "8", "9">>

RECURSIVE str(_)
str(n) ==
    IF n < 10 THEN <<DigitChars[n + 1]>>
    ELSE str(n \div 10) \o <<DigitChars[(n % 10) + 1]>>

(***************************************************************************)
(* ConlluToken and ConlluSentence.                                         *)
(***************************************************************************)
MorphologicalTokenDTO(lemma_, pos_, tags_) ==
    [lemma |-> lemma_, pos |-> pos_, tags |-> tags_]

\* the token after lines 302-305
ConlluToken(text, position, morphology) ==
    [text |-> text, position |-> position, morphology |-> morphology]

ConlluSentence(position, text, toks) ==
    [position |-> position, text |-> text, tokens |-> toks]

\* ConlluToken.get_conllu_text: the ten tab-separated fields
token_conllu_text(token, include_morphological_tags) ==
    <<str(token.position), token.text, token.morphology.lemma,
      token.morphology.pos, <<"_">>,
      IF include_morphological_tags /\ token.morphology.tags # <<>>
      THEN token.morphology.tags ELSE <<"_">>,
      <<"0">>, "root", <<"_">>, <<"_">> >>

\* ConlluToken.get_cleaned: lowercased, every character that is neither a
\* word character nor whitespace removed
get_cleaned(token) ==
    SelectSeq(lower(token.text), LAMBDA c : isalnum(c) \/ c \in Whitespace)

\* ConlluSentence.get_conllu_text: the sent_id line, the text line, the tokens
sentence_conllu_text(sentence, include_morphological_tags) ==
    [sent_id |-> str(sentence.position),
     text |-> sentence.text,
     lines |-> [i \in 1..Len(sentence.tokens) |->
                  token_conllu_text(sentence.tokens[i], include_morphological_tags)]]

RECURSIVE CleanedFrom(_)
CleanedFrom(toks) ==
    IF toks = <<>> THEN <<>>
    ELSE LET cleaned_token == get_cleaned(Head(toks))
         IN  (IF cleaned_token # <<>> THEN cleaned_token \o <<" ">> ELSE <<>>)
             \o CleanedFrom(Tail(toks))

get_cleaned_sentence(sentence) == strip(CleanedFrom(sentence.tokens))

\* core_utils.article.io: what to_cleaned and to_conllu hand to persistence
to_cleaned(sentences) ==
    [i \in 1..Len(sentences) |-> get_cleaned_sentence(sentences[i])]

to_conllu(sentences, include_morphological_tags) ==
    [i \in 1..Len(sentences) |->
        sentence_conllu_text(sentences[i], include_morphological_tags)]

(***************************************************************************)
(* _process, lines 276-306: the pieces of the two inner loops.             *)
(***************************************************************************)
\* the record a reference of the token group stands for; 0 is the dictionary
\* {'text': '.'} of line 284
Record(stream, ref) == IF ref = 0 THEN [text |-> <<".">>] ELSE stream[ref]

\* line 284 left out
WithoutTerminator(toks) == toks

\* line 284: tokens.append({'text': '.'})
WithTerminator(toks) == Append(toks, 0)

\* line 280: any(c.isalnum() for c in token['text'])
Accepts(text) == HasAlnum(text)

\* the generator created anew for every sentence
GeneratorRestarted(taken) == 0

\* line 270: the generator is created once, before the loop over the
\* sentences, so a later sentence goes on where the earlier one stopped
GeneratorKept(taken) == taken

\* enumerate(tokens) without start=1
PositionFromZero(i) == i - 1

\* line 286: enumerate(tokens, start=1)
Position(i) == i

\* line 287
HasAnalysis(token) == "analysis" \in DOMAIN token /\ token.analysis # <<>>

\* lines 295-300 with the digit test first and no PUNCT
FallbackPosNoPunct(text) ==
    IF isdigit(text) THEN "NUM" ELSE "X"

\* lines 295-300
FallbackPos(text) ==
    IF strip(text) = <<".">> THEN "PUNCT"
    ELSE IF isdigit(text) THEN "NUM"
    ELSE "X"

\* lines 287-306 for one token: the ConlluToken, or the exception of convert_pos
BuildToken(mapping, token, position) ==
    IF HasAnalysis(token)
    THEN LET lex == token.analysis[1].lex
             p == convert_pos(mapping, token.analysis[1].gr)
             t == convert_morphological_tags(mapping, token.analysis[1].gr)
         IN  IF p.raised # "none"
             THEN Raised(p.raised)
             ELSE Returned(ConlluToken(token.text, position,
                                       MorphologicalTokenDTO(lex, p.value, t)))
    ELSE Returned(ConlluToken(token.text, position,
                              MorphologicalTokenDTO(token.text,
                                                    FallbackPos(token.text), <<>>)))

BuildTokens(mapping, stream, group) ==
    [i \in 1..Len(group) |-> BuildToken(mapping, Record(stream, group[i]), Position(i))]

(***************************************************************************)
(* The state machine.  An article is what split_by_sentence and            *)
(* Mystem.analyze return for its text.                                     *)
(***************************************************************************)
None == <<>>
Some(v) == <<v>>

NoFiles == [cleaned |-> None, conllu |-> None, conllu_tags |-> None]

Article == articles[art]
Sentence == Article.sentences[idx_sent + 1]

ConverterIdle == /\ tags = None /\ feats = None /\ conv_pos = None

\* run, lines 317-318, and _process, lines 269-272: the next article is taken
\* and _process starts on it; with no sentence it returns at once
StartArticle ==
    /\ pc = "run"
    /\ art < Len(articles)
    /\ art' = art + 1
    /\ result' = 0
    /\ idx_sent' = 0
    /\ tokens' = <<>>
    /\ idx_token' = 0
    /\ conllu_sentences' = <<>>
    /\ groups' = <<>>
    /\ pulled' = <<>>
    /\ IF articles[art + 1].sentences = <<>>
       THEN /\ attached' = [attached EXCEPT ![art + 1] = Some(<<>>)]
            /\ pc' = "to_cleaned"
       ELSE /\ attached' = attached
            /\ pc' = "pull"
    /\ UNCHANGED <<tag_mapping, tags, feats, conv_pos, articles, files, err>>

\* _process, lines 276-283: one iteration of the loop over the generator
Pull ==
    /\ pc = "pull"
    /\ result < Len(Article.stream)
    /\ LET token == Article.stream[result + 1]
           sentence_subbed == RemoveFirst(Sentence, token.text)
       IN  /\ result' = result + 1
           /\ pulled' = Append(pulled, [record |-> result + 1, sentence |-> idx_sent])
           /\ IF ~Contains(Sentence, token.text)
              THEN /\ tokens' = tokens
                   /\ pc' = "pull"
              ELSE /\ tokens' = IF Accepts(token.text)
                                THEN Append(tokens, result + 1) ELSE tokens
                   /\ pc' = IF ~HasAlnum(sentence_subbed) THEN "build" ELSE "pull"
    /\ UNCHANGED <<tag_mapping, tags, feats, conv_pos, articles, art, idx_sent,
                   idx_token, conllu_sentences, groups, attached, files, err>>

\* _process, line 276: the generator is exhausted, the loop ends
Exhausted ==
    /\ pc = "pull"
    /\ result = Len(Article.stream)
    /\ pc' = "build"
    /\ UNCHANGED <<tag_mapping, tags, feats, conv_pos, articles, art, result,
                   idx_sent, tokens, idx_token, conllu_sentences, groups, pulled,
                   attached, files, err>>

\* _process, lines 284-311: the terminator is appended, the tokens are built
\* and the sentence is stored; an exception of convert_pos leaves _process
\* and run; after the last sentence _process returns and run attaches
BuildSentence ==
    /\ pc = "build"
    /\ LET group == WithTerminator(tokens)
           built == BuildTokens(tag_mapping, Article.stream, group)
           failed == {i \in 1..Len(group) : built[i].raised # "none"}
           first == CHOOSE i \in failed : \A j \in failed : i <= j
           sentence == ConlluSentence(idx_sent, Sentence,
                                      [i \in 1..Len(group) |-> built[i].value])
       IN  /\ groups' = Append(groups, group)
           /\ IF failed # {}
              THEN /\ idx_token' = Position(first)
                   /\ err' = built[first].raised
                   /\ pc' = "raised"
                   /\ UNCHANGED <<conllu_sentences, idx_sent, tokens, result, attached>>
              ELSE /\ idx_token' = Position(Len(group))
                   /\ err' = err
                   /\ conllu_sentences' = Append(conllu_sentences, sentence)
                   /\ tokens' = <<>>
                   /\ result' = GeneratorKept(result)
                   /\ IF idx_sent + 1 < Len(Article.sentences)
                      THEN /\ idx_sent' = idx_sent + 1
                           /\ pc' = "pull"
                           /\ attached' = attached
                      ELSE /\ idx_sent' = idx_sent
                           /\ pc' = "to_cleaned"
                           /\ attached' = [attached EXCEPT
                                             ![art] = Some(conllu_sentences')]
    /\ UNCHANGED <<tag_mapping, tags, feats, conv_pos, articles, art, pulled, files>>

\* run, line 319
ToCleaned ==
    /\ pc = "to_cleaned"
    /\ files' = [files EXCEPT ![art].cleaned = Some(to_cleaned(attached[art][1]))]
    /\ pc' = "to_conllu"
    /\ UNCHANGED <<tag_mapping, tags, feats, conv_pos, articles, art, result,
                   idx_sent, tokens, idx_token, conllu_sentences, groups, pulled,
                   attached, err>>

\* run, line 320
ToConllu ==
    /\ pc = "to_conllu"
    /\ files' = [files EXCEPT ![art].conllu = Some(to_conllu(attached[art][1], FALSE))]
    /\ pc' = "to_conllu_tags"
    /\ UNCHANGED <<tag_mapping, tags, feats, conv_pos, articles, art, result,
                   idx_sent, tokens, idx_token, conllu_sentences, groups, pulled,
                   attached, err>>

\* run, line 321, and back to the head of the loop
ToConlluTags ==
    /\ pc = "to_conllu_tags"
    /\ files' = [files EXCEPT
                   ![art].conllu_tags = Some(to_conllu(attached[art][1], TRUE))]
    /\ pc' = "run"
    /\ UNCHANGED <<tag_mapping, tags, feats, conv_pos, articles, art, result,
                   idx_sent, tokens, idx_token, conllu_sentences, groups, pulled,
                   attached, err>>

\* run, line 317: no article is left
RunDone ==
    /\ pc = "run"
    /\ art = Len(articles)
    /\ pc' = "done"
    /\ UNCHANGED <<tag_mapping, tags, feats, conv_pos, articles, art, result,
                   idx_sent, tokens, idx_token, conllu_sentences, groups, pulled,
                   attached, files, err>>

(***************************************************************************)
(* Direct calls of the tag converter on one native tag string.             *)
(***************************************************************************)
CallConvertMorphologicalTags ==
    /\ pc = "converter"
    /\ feats = None
    /\ feats' = Some(convert_morphological_tags(tag_mapping, tags[1]))
    /\ UNCHANGED <<tag_mapping, tags, conv_pos, articles, art, pc, result, idx_sent,
                   tokens, idx_token, conllu_sentences, groups, pulled, attached,
                   files, err>>

CallConvertPos ==
    /\ pc = "converter"
    /\ conv_pos = None
    /\ conv_pos' = Some(convert_pos(tag_mapping, tags[1]))
    /\ UNCHANGED <<tag_mapping, tags, feats, articles, art, pc, result, idx_sent,
                   tokens, idx_token, conllu_sentences, groups, pulled, attached,
                   files, err>>

(***************************************************************************)
(* The inputs: mapping tables, native tag strings, analyzer records,       *)
(* sentences and corpora.                                                  *)
(***************************************************************************)
SeqsUpTo(S, n) == UNION {[1..k -> S] : k \in 0..n}

MappedCodes == {<<"x">>, <<"y">>}
TagCodes == {<<"x">>, <<"y">>, <<"x", "y">>}

PosEntries == (<<"S">> :> "NOUN") @@ (<<"V">> :> "VERB")

FeatureEntries ==
    [c \in FeatureCategories |->
        CASE c = case -> (<<"x">> :> "Nom") @@ (<<"y">> :> "Gen")
          [] c = number -> (<<"x">> :> "Plur") @@ (<<"y">> :> "Sing")
          [] c = gender -> (<<"x">> :> "Masc") @@ (<<"y">> :> "Fem")
          [] c = animacy -> (<<"x">> :> "Anim") @@ (<<"y">> :> "Inan")
          [] c = tense -> (<<"x">> :> "Past") @@ (<<"y">> :> "Pres")]

\* the table whose feature category c maps the codes of codes[c]
Table(codes) ==
    [c \in FeatureCategories \cup {pos} |->
        IF c = pos THEN PosEntries
        ELSE [t \in codes[c] |-> FeatureEntries[c][t]]]

TableSet ==
    {Table(codes) : codes \in
        {f \in [FeatureCategories -> SUBSET MappedCodes] :
            /\ f[animacy] \subseteq {<<"x">>}
            /\ f[tense] \subseteq {<<"x">>}}}

DefaultMapping ==
    Table([c \in FeatureCategories |->
              CASE c = case -> {<<"x">>}
                [] c = number -> {<<"y">>}
                [] OTHER -> {}])

\* a native tag string: the part-of-speech code, then the codes, each after a comma
RECURSIVE GrOf(_, _)
GrOf(code, codes) ==
    IF codes = <<>> THEN code
    ELSE GrOf(code \o <<",">> \o Head(codes), Tail(codes))

GrSet == {GrOf(p, codes) : p \in {<<"S">>, <<"Q">>, <<>>},
                           codes \in SeqsUpTo(TagCodes, MaxTags)}

RecNoun ==
    [text |-> <<"a">>,
     analysis |-> <<[lex |-> <<"a">>, gr |-> <<"S", ",", "x", "=", "y">>]>>]
RecTwo ==
    [text |-> <<"A">>,
     analysis |-> <<[lex |-> <<"a">>, gr |-> <<"V", ",", "y">>],
                    [lex |-> <<"b">>, gr |-> <<"S">>]>>]
RecUnknown == [text |-> <<"b">>]
RecNum == [text |-> <<"1">>, analysis |-> <<>>]
RecPunct == [text |-> <<".">>]
RecBadPos ==
    [text |-> <<"b">>,
     analysis |-> <<[lex |-> <<"b">>, gr |-> <<"Q", ",", "x">>]>>]

RecSet == {RecNoun, RecTwo, RecUnknown, RecNum, RecPunct, RecBadPos}

SentSet == {<<"a", " ", "b", ".">>, <<"b">>, <<"1", " ", "A">>}

DocSet ==
    {[sentences |-> ss, stream |-> rs] :
        ss \in SeqsUpTo(SentSet, MaxSents), rs \in SeqsUpTo(RecSet, MaxStream)}

GoodDoc == [sentences |-> << <<"b">> >>, stream |-> <<RecUnknown>>]
BadDoc == [sentences |-> << <<"b">> >>, stream |-> <<RecBadPos>>]
OtherDoc ==
    [sentences |-> << <<"a", " ", "b", ".">> >>,
     stream |-> <<RecNoun, RecUnknown, RecPunct>>]

RunDocs == {GoodDoc, BadDoc, OtherDoc}

\* a corpus of one article of any content, or of several articles
Corpora ==
    {<<d>> : d \in DocSet} \cup (SeqsUpTo(RunDocs, MaxDocs) \ SeqsUpTo(RunDocs, 1))

ProcessIdle ==
    /\ art = 0
    /\ result = 0
    /\ idx_sent = 0
    /\ tokens = <<>>
    /\ idx_token = 0
    /\ conllu_sentences = <<>>
    /\ groups = <<>>
    /\ pulled = <<>>
    /\ attached = [i \in 1..Len(articles) |-> None]
    /\ files = [i \in 1..Len(articles) |-> NoFiles]
    /\ err = "none"

\* after the constructors of CorpusManager and MorphologicalAnalysisPipeline
Init ==
    /\ tag_mapping = DefaultMapping
    /\ ConverterIdle
    /\ articles \in Corpora
    /\ pc = "run"
    /\ ProcessIdle

\* a converter over some mapping table, about to be called on some tag string
InitConv ==
    /\ tag_mapping \in TableSet
    /\ tags \in {Some(gr) : gr \in GrSet}
    /\ feats = None
    /\ conv_pos = None
    /\ articles = <<>>
    /\ pc = "converter"
    /\ ProcessIdle

Next ==
    \/ StartArticle
    \/ Pull
    \/ Exhausted
    \/ BuildSentence
    \/ ToCleaned
    \/ ToConllu
    \/ ToConlluTags
    \/ RunDone


NextConv ==
    \/ CallConvertMorphologicalTags
    \/ CallConvertPos

Spec == Init /\ [][Next]_vars

SpecConv == InitConv /\ [][NextConv]_vars

(***************************************************************************)
(* Notions the properties are stated with.                                 *)
(***************************************************************************)
\* _process has returned for the current article
Returned_process == art >= 1 /\ attached[art] # None

\* the records of the stream that the sentence with index s matched before
\* the k-th pull, in the order they were pulled
RECURSIVE MatchedBefore(_, _)
MatchedBefore(k, s) ==
    IF k <= 1 THEN <<>>
    ELSE LET e == pulled[k - 1]
             text == Article.stream[e.record].text
         IN  MatchedBefore(k - 1, s)
             \o (IF e.sentence = s /\ Contains(Article.sentences[s + 1], text)
                 THEN <<text>> ELSE <<>>)

\* the sentence text with the first occurrence of each text removed in turn
RECURSIVE Remainder(_, _)
Remainder(text, parts) ==
    IF parts = <<>> THEN text
    ELSE Remainder(RemoveFirst(text, Head(parts)), Tail(parts))

\* the real records of the token groups, finished and current, in order
RECURSIVE Flatten(_)
Flatten(gs) ==
    IF gs = <<>> THEN <<>>
    ELSE SelectSeq(Head(gs), LAMBDA r : r # 0) \o Flatten(Tail(gs))

Elements(seq) == {seq[i] : i \in 1..Len(seq)}

\* the part-of-speech code of the first candidate has no entry in the table
UnmappedPos(token) ==
    /\ HasAnalysis(token)
    /\ LET found == re_findall(LatUpper, token.analysis[1].gr)
       IN  found # <<>> /\ found[1] \notin DOMAIN tag_mapping[pos]

\* the category=value pairs of a feature string, and its categories in order
NumPairs(f) == (Len(f) + 1) \div 4
PairAt(f, k) == <<f[4 * k - 3], f[4 * k - 1]>>
Pairs(f) == {PairAt(f, k) : k \in 1..NumPairs(f)}

TagList == re_findall(CyrLower, tags[1])

HasEntry(code) == \E c \in FeatureCategories : code \in DOMAIN tag_mapping[c]

Ambiguous(code) ==
    code \in DOMAIN tag_mapping[case] /\ code \in DOMAIN tag_mapping[gender]

\* only whitespace around exactly one period
OnlyPeriod(text) ==
    /\ Cardinality({i \in 1..Len(text) : text[i] = "."}) = 1
    /\ \A i \in 1..Len(text) : text[i] \in Whitespace \cup {"."}

(***************************************************************************)
(* C1: while a sentence is aligned, no record is pulled for it once the    *)
(* running remainder (the sentence text with the first occurrence of       *)
(* every record matched so far removed) has no alphanumeric character.     *)
(***************************************************************************)
C1_NoPullAfterAllMatched ==
    art >= 1 =>
        \A k \in 1..Len(pulled) :
            LET before == MatchedBefore(k, pulled[k].sentence)
            IN  before # <<>> =>
                    HasAlnum(Remainder(Article.sentences[pulled[k].sentence + 1],
                                       before))

(***************************************************************************)
(* C2: a record pulled for a sentence that does not contain its surface    *)
(* text is left for a later sentence: once _process has returned, the      *)
(* record is a token of the first later sentence that contains its text    *)
(* (when that text has an alphanumeric character).                         *)
(***************************************************************************)
C2_SkippedRecordReachesLaterSentence ==
    Returned_process =>
        \A k \in 1..Len(pulled) :
            LET r == pulled[k].record
                s == pulled[k].sentence
                text == Article.stream[r].text
                later == {n \in (s + 1)..(Len(Article.sentences) - 1) :
                             Contains(Article.sentences[n + 1], text)}
            IN  (/\ ~Contains(Article.sentences[s + 1], text)
                 /\ HasAlnum(text)
                 /\ later # {})
                => LET n == CHOOSE m \in later : \A o \in later : m <= o
                   IN  r \in Elements(groups[n + 1])

(***************************************************************************)
(* C3: every Sentence built by _process has a non-empty token sequence     *)
(* whose last token is the synthetic terminator '.', also a sentence with  *)
(* no matching record and a sentence reached after the stream is           *)
(* exhausted; such a sentence raises no error.                             *)
(***************************************************************************)
EndsWithTerminator(sentence) ==
    LET t == sentence.tokens
    IN  /\ Len(t) >= 1
        /\ t[Len(t)].text = <<".">>
        /\ t[Len(t)].morphology.pos = "PUNCT"

C3_TokensNeverEmpty ==
    /\ \A i \in 1..Len(conllu_sentences) : EndsWithTerminator(conllu_sentences[i])
    /\ \A a \in 1..Len(articles) :
           attached[a] # None =>
               \A i \in 1..Len(attached[a][1]) : EndsWithTerminator(attached[a][1][i])
    /\ pc = "raised" => Flatten(<<groups[Len(groups)]>>) # <<>>
    /\ \A i \in 1..Len(groups) :
           Flatten(<<groups[i]>>) = <<>> => Len(conllu_sentences) >= i

C3_Witness ==
    /\ Returned_process
    /\ Len(conllu_sentences) = 2
    /\ Len(conllu_sentences[2].tokens) = 1
    /\ result = Len(Article.stream)
    /\ \A k \in 1..Len(pulled) : pulled[k].sentence = 0

(***************************************************************************)
(* C4 as stated: a token whose first candidate's part-of-speech code has   *)
(* no entry in the POS category makes convert_pos raise UnknownTagError,   *)
(* and run halts on that document before any of its three outputs is       *)
(* handed to persistence; the token gets no part of speech.                *)
(***************************************************************************)
HaltsWith(name) ==
    \A i \in 1..Len(groups) : \A p \in 1..Len(groups[i]) :
        UnmappedPos(Record(Article.stream, groups[i][p])) =>
            /\ pc = "raised"
            /\ err = name
            /\ files[art] = NoFiles
            /\ attached[art] = None
            /\ Len(conllu_sentences) < i

C5_AlwaysCase ==
    (pc = "converter" /\ feats # None) =>
        \A i \in 1..Len(TagList) :
            Ambiguous(TagList[i]) =>
                /\ <<case, tag_mapping[case][TagList[i]]>> \in Pairs(feats[1])
                /\ <<gender, tag_mapping[gender][TagList[i]]>> \notin Pairs(feats[1])

(***************************************************************************)
(* C5 amended: such a code resolves to case when no earlier code of the    *)
(* tag string has a case entry; its gender value is in the output only     *)
(* when case is assigned too (the code found case already taken).          *)
(***************************************************************************)
C5_CaseWhenCaseFree ==
    (pc = "converter" /\ feats # None) =>
        \A i \in 1..Len(TagList) :
            Ambiguous(TagList[i]) =>
                /\ (\A j \in 1..(i - 1) : TagList[j] \notin DOMAIN tag_mapping[case])
                       => <<case, tag_mapping[case][TagList[i]]>> \in Pairs(feats[1])
                /\ <<gender, tag_mapping[gender][TagList[i]]>> \in Pairs(feats[1])
                       => \E v \in Pairs(feats[1]) : v[1] = case

C5_Witness ==
    /\ pc = "converter"
    /\ feats # None
    /\ Len(TagList) = 3
    /\ TagList[1] = <<"x", "y">>
    /\ TagList[2] \in DOMAIN tag_mapping[number] \ DOMAIN tag_mapping[case]
    /\ Ambiguous(TagList[3])
    /\ <<case, tag_mapping[case][TagList[3]]>> \in Pairs(feats[1])

(***************************************************************************)
(* C6: the output of convert_morphological_tags has at most one pair per   *)
(* category (the first code that takes a category keeps it), the pairs in  *)
(* ascending order of category name, nothing from codes without an entry   *)
(* in any feature category, and is empty when no category was assigned.    *)
(***************************************************************************)
C6_OnePairPerCategorySorted ==
    (pc = "converter" /\ feats # None) =>
        LET f == feats[1]
            n == NumPairs(f)
            mapped == {i \in 1..Len(TagList) : HasEntry(TagList[i])}
            cased == {i \in 1..Len(TagList) : TagList[i] \in DOMAIN tag_mapping[case]}
        IN  /\ Len(f) = IF n = 0 THEN 0 ELSE 4 * n - 1
            /\ \A k \in 1..n : f[4 * k - 2] = "="
            /\ \A k \in 1..(n - 1) : f[4 * k] = "|"
            /\ \A k \in 1..n : PairAt(f, k)[1] \in FeatureCategories
            /\ \A k \in 1..(n - 1) :
                   NameRank(PairAt(f, k)[1]) < NameRank(PairAt(f, k + 1)[1])
            /\ \A k \in 1..n :
                   \E i \in mapped :
                       /\ TagList[i] \in DOMAIN tag_mapping[PairAt(f, k)[1]]
                       /\ tag_mapping[PairAt(f, k)[1]][TagList[i]] = PairAt(f, k)[2]
            /\ n <= Cardinality(mapped)
            /\ (f = <<>>) <=> (mapped = {})
            /\ cased # {} =>
                   LET i == CHOOSE m \in cased : \A o \in cased : m <= o
                   IN  <<case, tag_mapping[case][TagList[i]]>> \in Pairs(f)

C6_Witness ==
    /\ pc = "converter"
    /\ feats # None
    /\ NumPairs(feats[1]) = 2
    /\ \E i \in 1..Len(TagList) : ~HasEntry(TagList[i])
    /\ Cardinality({i \in 1..Len(TagList) :
                       TagList[i] \in DOMAIN tag_mapping[case]}) = 2

(***************************************************************************)
(* C7: processing one document never affects another: when run has ended,  *)
(* two articles of the corpus with the same content have the same          *)
(* sentences attached and the same three renderings in persistence.        *)
(***************************************************************************)
C7_DocumentsIndependent ==
    pc \in {"done", "raised"} =>
        \A i, j \in 1..Len(articles) :
            articles[i] = articles[j] =>
                /\ attached[i] = attached[j]
                /\ files[i] = files[j]

(***************************************************************************)
(* C8: a token built from a record without analysis has the surface text   *)
(* as lemma, empty features, and POS PUNCT for a lone period, NUM for a    *)
(* text of digits only, X otherwise; a token built from a record with a    *)
(* candidate takes lemma, POS and features from its first candidate.       *)
(***************************************************************************)
C8_FallbackPolicy ==
    art >= 1 =>
        \A i \in 1..Len(conllu_sentences) :
            \A p \in 1..Len(conllu_sentences[i].tokens) :
                LET token == conllu_sentences[i].tokens[p]
                    m == token.morphology
                    record == Record(Article.stream, groups[i][p])
                IN  /\ token.text = record.text
                    /\ ~HasAnalysis(record) =>
                          /\ m.lemma = record.text
                          /\ m.tags = <<>>
                          /\ m.pos = IF OnlyPeriod(record.text) THEN "PUNCT"
                                     ELSE IF \A c \in Elements(record.text) : c \in Digits
                                          THEN "NUM"
                                          ELSE "X"
                    /\ HasAnalysis(record) =>
                          /\ m.lemma = record.analysis[1].lex
                          /\ m.pos = convert_pos(tag_mapping, record.analysis[1].gr).value
                          /\ m.tags = convert_morphological_tags(
                                          tag_mapping, record.analysis[1].gr)
                          /\ record = RecTwo => m.pos = "VERB"

C8_Witness ==
    /\ Returned_process
    /\ Len(conllu_sentences) = 2
    /\ Len(conllu_sentences[1].tokens) = 2
    /\ conllu_sentences[1].tokens[1].morphology.pos = "X"
    /\ Len(conllu_sentences[2].tokens) = 3
    /\ conllu_sentences[2].tokens[1].morphology.pos = "NUM"
    /\ conllu_sentences[2].tokens[2].morphology.pos = "VERB"
    /\ conllu_sentences[2].tokens[3].morphology.pos = "PUNCT"

(***************************************************************************)
(* C9: token positions are 1, 2, ..., n in token order, the terminator     *)
(* included; the sentences carry positions 0, 1, ..., m-1 in document      *)
(* order, one Sentence per input sentence, with its original text.         *)
(***************************************************************************)
WellNumbered(sentences, texts) ==
    \A i \in 1..Len(sentences) :
        /\ sentences[i].position = i - 1
        /\ sentences[i].text = texts[i]
        /\ \A p \in 1..Len(sentences[i].tokens) : sentences[i].tokens[p].position = p

C9_PositionsSequential ==
    /\ art >= 1 =>
           /\ Len(conllu_sentences) <= Len(Article.sentences)
           /\ WellNumbered(conllu_sentences, Article.sentences)
    /\ \A a \in 1..Len(articles) :
           attached[a] # None =>
               /\ Len(attached[a][1]) = Len(articles[a].sentences)
               /\ WellNumbered(attached[a][1], articles[a].sentences)

C9_Witness ==
    /\ Returned_process
    /\ Len(attached[art][1]) = 2
    /\ Len(attached[art][1][1].tokens) = 2
    /\ Len(attached[art][1][2].tokens) = 3
    /\ attached[art][1][2].position = 1
    /\ attached[art][1][2].tokens[3].position = 3

(***************************************************************************)
(* C10: within one document the stream is consumed once through one        *)
(* cursor shared by all sentences: the k-th pull takes the k-th record,    *)
(* the sentences pull in order, and the real tokens of all sentences, in   *)
(* sentence order, are records of increasing stream index (so each record  *)
(* is a token of at most one sentence), each with an alphanumeric          *)
(* character in its surface text.                                          *)
(***************************************************************************)
C10_StreamConsumedOnce ==
    art >= 1 =>
        LET real == Flatten(IF pc \in {"pull", "build"}
                            THEN Append(groups, tokens) ELSE groups)
        IN  /\ Len(pulled) = result
            /\ result <= Len(Article.stream)
            /\ \A k \in 1..Len(pulled) : pulled[k].record = k
            /\ \A k \in 1..(Len(pulled) - 1) :
                   pulled[k].sentence <= pulled[k + 1].sentence
            /\ \A k \in 1..(Len(real) - 1) : real[k] < real[k + 1]
            /\ \A k \in 1..Len(real) :
                   /\ real[k] \in 1..result
                   /\ HasAlnum(Article.stream[real[k]].text)

C10_Witness ==
    /\ Returned_process
    /\ Len(groups) = 2
    /\ Len(groups[1]) = 2
    /\ Len(groups[2]) = 2
    /\ groups[1][1] < groups[2][1]

====
